---- MODULE Spec2Model ----
(***************************************************************************)
(* Model of the climbing self-assessment tool.                             *)
(*                                                                         *)
(*   self_assesment.py  : ask_questions, store_results, read_results,      *)
(*                        table_results_low_questions,                     *)
(*                        table_results_all_questions, generate_rst_table  *)
(*   self-assesment.py  : the collection entry point (ask_questions,       *)
(*                        store_results, main)                             *)
(*                                                                         *)
(* Text is modelled as text: a Python str is a sequence of one-character   *)
(* strings, the results file is the sequence of characters it holds, and   *)
(* formatting and parsing are carried out character by character.          *)
(* A Python dict is a sequence of <<key, value>> pairs in insertion order. *)
(***************************************************************************)
EXTENDS Integers, Sequences, FiniteSets, TLC

VARIABLES
    questions,    \* question id -> question text, as read_questions returns it
    mapping,      \* question id -> category, as read_questions returns it
    file,         \* results.txt: whether it exists and the characters it holds
    max_runs,     \* how many runs of the collection the scenario has
    log,          \* the writes made to results.txt so far, in call order
    asked,        \* what the last ask_questions returned
    phase,        \* position of the reading entry point (main)
    results,      \* what read_results returned
    low_out,      \* what table_results_low_questions printed, per session
    all_out,      \* what table_results_all_questions printed, per session
    table,        \* generate_rst_table: argument table
    title,        \* generate_rst_table: argument title
    headings,     \* generate_rst_table: argument headings
    str_table     \* generate_rst_table: the returned list of lines

vars == <<questions, mapping, file, max_runs, log, asked, phase, results, low_out, all_out,
          table, title, headings, str_table>>

fileVars == <<questions, mapping, file, max_runs, log, asked, phase, results, low_out, all_out>>
tableVars == <<table, title, headings, str_table>>

----------------------------------------------------------------------------
(* Bounds of the model *)

MaxAppends == 2
MaxRuns == 1
MaxRows == 2
MaxCellLen == 2

(* None of Python *)
None == [none |-> TRUE]

----------------------------------------------------------------------------
(* Generic sequence helpers *)

RECURSIVE Flatten(_)
Flatten(ss) == IF ss = <<>> THEN <<>> ELSE Head(ss) \o Flatten(Tail(ss))

(* n * c for a one-character string c: empty when n <= 0 *)
Repeat(c, n) == [i \in 1..n |-> c]

RECURSIVE SumSeq(_)
SumSeq(s) == IF s = <<>> THEN 0 ELSE Head(s) + SumSeq(Tail(s))

RECURSIVE CountOf(_, _)
CountOf(c, s) ==
    IF s = <<>> THEN 0
    ELSE (IF Head(s) = c THEN 1 ELSE 0) + CountOf(c, Tail(s))

Range(s) == {s[i] : i \in 1..Len(s)}

Prefix(s, n) == SubSeq(s, 1, n)

(* str.join *)
RECURSIVE Join(_, _)
Join(sep, parts) ==
    IF parts = <<>> THEN <<>>
    ELSE IF Len(parts) = 1 THEN parts[1]
    ELSE parts[1] \o sep \o Join(sep, Tail(parts))

(* the fields of s between the characters of seps, empty fields kept *)
Fields(s, seps) ==
    LET cuts == SelectSeq([i \in 1..Len(s) |-> i], LAMBDA i : s[i] \in seps)
        ends == <<0>> \o cuts \o <<Len(s) + 1>>
    IN  [k \in 1..(Len(ends) - 1) |-> SubSeq(s, ends[k] + 1, ends[k + 1] - 1)]

(* str.split(sep) for a one-character separator: empty fields are kept *)
Split(s, sep) == Fields(s, {sep})

(* str.strip().split(): split on runs of whitespace, no empty fields *)
Whitespace == {" ", "\n"}

SplitWS(s) == SelectSeq(Fields(s, Whitespace), LAMBDA f : f # <<>>)

(* iteration over a text file: the lines, each with its newline, the last *)
(* one possibly unterminated                                              *)
FileLines(s) ==
    LET parts == Fields(s, {"\n"})
        n     == Len(parts)
        full  == [k \in 1..(n - 1) |-> Append(parts[k], "\n")]
    IN  IF parts[n] = <<>> THEN full ELSE Append(full, parts[n])

----------------------------------------------------------------------------
(* Integers as text *)

Digits == <<"0", "1", "2", "3", "4", "5", "6", "7", "8", "9">>

IsDigit(c) == c \in Range(Digits)

DigitVal(c) == CHOOSE d \in 0..9 : Digits[d + 1] = c

RECURSIVE NatStr(_)
NatStr(n) ==
    IF n < 10 THEN <<Digits[n + 1]>>
    ELSE NatStr(n \div 10) \o <<Digits[(n % 10) + 1]>>

(* str(n) / '{}'.format(n) for an int *)
IntStr(n) == IF n < 0 THEN <<"-">> \o NatStr(-n) ELSE NatStr(n)

(* the zero padded fields of strftime *)
Pad(n, w) == Repeat("0", w - Len(NatStr(n))) \o NatStr(n)

RECURSIVE DigitsVal(_, _)
DigitsVal(s, acc) ==
    IF s = <<>> THEN acc ELSE DigitsVal(Tail(s), 10 * acc + DigitVal(Head(s)))

AllDigits(s) == s # <<>> /\ \A i \in 1..Len(s) : IsDigit(s[i])

(* int(s): an optional sign and at least one digit, anything else raises *)
IntOk(s) ==
    IF s # <<>> /\ Head(s) \in {"-", "+"} THEN AllDigits(Tail(s)) ELSE AllDigits(s)

IntVal(s) ==
    IF Head(s) = "-" THEN -DigitsVal(Tail(s), 0)
    ELSE IF Head(s) = "+" THEN DigitsVal(Tail(s), 0)
    ELSE DigitsVal(s, 0)

----------------------------------------------------------------------------
(* Dicts: sequences of <<key, value>> pairs in insertion order *)

Keys(d) == {d[i][1] : i \in 1..Len(d)}

Get(d, k) == d[CHOOSE i \in 1..Len(d) : d[i][1] = k][2]

(* d[k] = v: a present key keeps its place *)
Put(d, k, v) ==
    IF k \in Keys(d)
    THEN [i \in 1..Len(d) |-> IF d[i][1] = k THEN <<k, v>> ELSE d[i]]
    ELSE Append(d, <<k, v>>)

Values(d) == [i \in 1..Len(d) |-> d[i][2]]

(* sorted(keys) for integer keys *)
RECURSIVE SortedInts(_)
SortedInts(S) ==
    IF S = {} THEN <<>>
    ELSE LET m == CHOOSE x \in S : \A y \in S : x <= y
         IN <<m>> \o SortedInts(S \ {m})

----------------------------------------------------------------------------
(* Text literals *)

TXT_Q0 == <<"Q", "0">>
TXT_Q1 == <<"Q", "1">>
TXT_TIME_EQ == <<"t", "i", "m", "e", "=">>
TXT_TIME == <<"t", "i", "m", "e">>
TXT_TIME_COLON == <<"t", "i", "m", "e", ":">>
TXT_ANSWERS_COLON == <<"a", "n", "s", "w", "e", "r", "s", ":">>
TXT_ID == <<"I", "D">>
TXT_QUESTION == <<"Q", "u", "e", "s", "t", "i", "o", "n">>
TXT_ANSWER == <<"A", "n", "s", "w", "e", "r">>
TXT_RESULTS_ON == <<"R", "e", "s", "u", "l", "t", "s", " ", "f", "o", "r", " ", "q", "u", "e", "s", "t", "i", "o", "n", "s", " ", "o", "n", " ">>
TXT_LOWEST_IN == <<"L", "o", "w", "e", "s", "t", " ", "s", "c", "o", "r", "i", "n", "g", " ", "i", "n", " ", "c", "a", "t", "e", "g", "o", "r", "y", " ", "\"">>
TXT_ANSWERS_FOR_QUESTIONS == <<"A", "n", "s", "w", "e", "r", "s", " ", "f", "o", "r", " ", "q", "u", "e", "s", "t", "i", "o", "n", "s">>
TXT_ANSWERS_FOR_CATEGORY == <<"A", "n", "s", "w", "e", "r", "s", " ", "f", "o", "r", " ", "c", "a", "t", "e", "g", "o", "r", "y", " ", "\"">>
TXT_MENTAL == <<"M", "e", "n", "t", "a", "l">>
TXT_TECHNIQUE == <<"T", "e", "c", "h", "n", "i", "q", "u", "e", " ", "a", "n", "d", " ", "T", "a", "c", "t", "i", "c", "s">>
TXT_PHYSICAL == <<"P", "h", "y", "s", "i", "c", "a", "l">>

----------------------------------------------------------------------------
(* Time stamps: datetime.datetime as a record of its fields *)

MkTime(d, mo, y, h, mi, s, us) ==
    [day |-> d, month |-> mo, year |-> y, hour |-> h, minute |-> mi,
     second |-> s, microsecond |-> us]

(* the instants at which a run of the collection may start, in clock order *)
Clock ==
    << MkTime(5, 11, 2026, 9, 7, 3, 120),
       MkTime(5, 11, 2026, 9, 7, 3, 123400),
       MkTime(31, 12, 2026, 23, 59, 59, 999999) >>

(* strftime with %f written without its leading zeros *)
strftime_unpadded(t) ==
    Pad(t.day, 2) \o <<".">> \o Pad(t.month, 2) \o <<".">> \o Pad(t.year, 4)
    \o <<"-">> \o Pad(t.hour, 2) \o <<":">> \o Pad(t.minute, 2)
    \o <<":">> \o Pad(t.second, 2) \o <<":">> \o NatStr(t.microsecond)

(* time.strftime(_DATE_FMT), _DATE_FMT = '%d.%m.%Y-%H:%M:%S:%f' *)
strftime(t) ==
    Pad(t.day, 2) \o <<".">> \o Pad(t.month, 2) \o <<".">> \o Pad(t.year, 4)
    \o <<"-">> \o Pad(t.hour, 2) \o <<":">> \o Pad(t.minute, 2)
    \o <<":">> \o Pad(t.second, 2) \o <<":">> \o Pad(t.microsecond, 6)

(* time.strftime(_DATE_FMT) of self-assesment.py, '%d.%m.%Y %H:%M:%S' *)
strftime_collect(t) ==
    Pad(t.day, 2) \o <<".">> \o Pad(t.month, 2) \o <<".">> \o Pad(t.year, 4)
    \o <<" ">> \o Pad(t.hour, 2) \o <<":">> \o Pad(t.minute, 2)
    \o <<":">> \o Pad(t.second, 2)

IsLeap(y) == (y % 4 = 0 /\ y % 100 # 0) \/ y % 400 = 0

DaysIn(mo, y) ==
    IF mo = 2 THEN (IF IsLeap(y) THEN 29 ELSE 28)
    ELSE IF mo \in {4, 6, 9, 11} THEN 30 ELSE 31

(* a directive of strptime: between lo and hi digits, value within [min, max] *)
FieldOk(s, lo, hi, min, max) ==
    /\ AllDigits(s)
    /\ Len(s) >= lo
    /\ Len(s) <= hi
    /\ DigitsVal(s, 0) >= min
    /\ DigitsVal(s, 0) <= max

(* datetime.datetime.strptime(s, _DATE_FMT): the whole of s has to match   *)
(* %d.%m.%Y-%H:%M:%S:%f; %d %m %H %M %S take one or two digits, %Y four,    *)
(* %f one to six, padded with zeros on the right.                          *)
strptime(s) ==
    LET halves == Split(s, "-")
        date   == IF Len(halves) = 2 THEN Split(halves[1], ".") ELSE <<>>
        clock  == IF Len(halves) = 2 THEN Split(halves[2], ":") ELSE <<>>
        shape  == /\ Len(date) = 3
                  /\ Len(clock) = 4
                  /\ FieldOk(date[1], 1, 2, 1, 31)
                  /\ FieldOk(date[2], 1, 2, 1, 12)
                  /\ FieldOk(date[3], 4, 4, 1, 9999)
                  /\ FieldOk(clock[1], 1, 2, 0, 23)
                  /\ FieldOk(clock[2], 1, 2, 0, 59)
                  /\ FieldOk(clock[3], 1, 2, 0, 59)
                  /\ FieldOk(clock[4], 1, 6, 0, 999999)
    IN  IF ~shape THEN [ok |-> FALSE, time |-> None]
        ELSE LET d  == DigitsVal(date[1], 0)
                 mo == DigitsVal(date[2], 0)
                 y  == DigitsVal(date[3], 0)
                 us == DigitsVal(clock[4] \o Repeat("0", 6 - Len(clock[4])), 0)
             IN  IF d > DaysIn(mo, y) THEN [ok |-> FALSE, time |-> None]
                 ELSE [ok |-> TRUE,
                       time |-> MkTime(d, mo, y, DigitsVal(clock[1], 0),
                                       DigitsVal(clock[2], 0),
                                       DigitsVal(clock[3], 0), us)]

----------------------------------------------------------------------------
(* The catalog: read_questions *)

Categories == {"mental", "physical", "technique"}

(* sorted() of category names *)
CategoryOrder == <<"mental", "physical", "technique">>

SortedCategories(S) == SelectSeq(CategoryOrder, LAMBDA c : c \in S)

(* questions.txt, one <<question, category>> per line *)
Catalogs ==
    { << <<TXT_Q0, "technique">>, <<TXT_Q1, "mental">> >>,
      << <<TXT_Q0, "physical">>,  <<TXT_Q1, "physical">> >> }

read_questions(catalog) ==
    [questions |-> [i \in 1..Len(catalog) |-> <<i - 1, catalog[i][1]>>],
     mapping   |-> [i \in 1..Len(catalog) |-> <<i - 1, catalog[i][2]>>]]

----------------------------------------------------------------------------
(* ask_questions: answers is what random.randint(0, 5) drew per question *)

MaxScore == 5

RECURSIVE AskLoop(_, _, _, _, _)
AskLoop(ids, answers, map, result_q, result_c) ==
    IF ids = <<>> THEN [result_q |-> result_q, result_c |-> result_c]
    ELSE LET idx      == Head(ids)
             answer   == answers[idx]
             category == Get(map, idx)
             rc0      == IF category \notin Keys(result_c)
                         THEN Put(result_c, category, 0) ELSE result_c
         IN  AskLoop(Tail(ids), answers, map,
                     Put(result_q, idx, answer),
                     Put(rc0, category, Get(rc0, category) + answer))

ask_questions(quest, answers, map, now) ==
    LET r == AskLoop(SortedInts(Keys(quest)), answers, map, <<>>, <<>>)
    IN  [result_q |-> r.result_q, result_c |-> r.result_c, time |-> now]

(* ask_questions of self-assesment.py: every answer is 0 *)
ask_questions_collect(quest, map, now) ==
    LET ids == [i \in 1..Len(quest) |-> quest[i][1]]
        r   == AskLoop(ids, [i \in Keys(quest) |-> 0], map, <<>>, <<>>)
    IN  [result_q |-> r.result_q, result_c |-> r.result_c, time |-> now]

----------------------------------------------------------------------------
(* store_results: the text one call appends to the file *)

AnswerTokens(result_q) ==
    LET ks == SortedInts(Keys(result_q))
    IN  [i \in 1..Len(ks) |-> IntStr(ks[i]) \o <<"=">> \o IntStr(Get(result_q, ks[i]))]

store_results(result_q, time) ==
    LET out == <<TXT_TIME_EQ \o strftime(time)>> \o AnswerTokens(result_q)
               \o << <<"\n">> >>
    IN  Join(<<" ">>, out)

(* store_results of self-assesment.py *)
store_results_collect(result_q, time) ==
    LET out == <<TXT_TIME_COLON, <<"\"">> \o strftime_collect(time) \o <<"\"">>,
                 TXT_ANSWERS_COLON>>
               \o AnswerTokens(result_q) \o << <<"\n">> >>
    IN  Join(<<" ">>, out)

----------------------------------------------------------------------------
(* read_results *)

Raised == [ok |-> FALSE, time |-> None, result_q |-> <<>>, result_c |-> <<>>]

(* the body of `for i in split` on one token *)
ReadToken(tok, new_result, map) ==
    LET spliti == Split(tok, "=")
    IN  IF spliti[1] = TXT_TIME
        THEN IF Len(spliti) < 2 THEN Raised
             ELSE LET t == strptime(spliti[2])
                  IN  IF ~t.ok THEN Raised
                      ELSE [new_result EXCEPT !.time = t.time]
        ELSE IF ~IntOk(spliti[1]) \/ Len(spliti) < 2 THEN Raised
        ELSE IF ~IntOk(spliti[2]) THEN Raised
        ELSE LET idx    == IntVal(spliti[1])
                 answer == IntVal(spliti[2])
             IN  IF idx \notin Keys(map) THEN Raised
                 ELSE LET category == Get(map, idx)
                          rc0 == IF category \notin Keys(new_result.result_c)
                                 THEN Put(new_result.result_c, category, 0)
                                 ELSE new_result.result_c
                      IN  [new_result EXCEPT
                             !.result_q = Put(@, idx, answer),
                             !.result_c = Put(rc0, category,
                                              Get(rc0, category) + answer)]

RECURSIVE ReadTokens(_, _, _)
ReadTokens(toks, new_result, map) ==
    IF toks = <<>> \/ ~new_result.ok THEN new_result
    ELSE ReadTokens(Tail(toks), ReadToken(Head(toks), new_result, map), map)

(* one line of the file into new_result *)
ReadLine(line, map) ==
    ReadTokens(SplitWS(line),
               [ok |-> TRUE, time |-> None, result_q |-> <<>>, result_c |-> <<>>],
               map)

Session(r) == [time |-> r.time, result_q |-> r.result_q, result_c |-> r.result_c]

RECURSIVE ReadLines(_, _, _)
ReadLines(lines, res, map) ==
    IF lines = <<>> THEN [ok |-> TRUE, results |-> res]
    ELSE LET r == ReadLine(Head(lines), map)
         IN  IF ~r.ok THEN [ok |-> FALSE, results |-> <<>>]
             ELSE ReadLines(Tail(lines), Append(res, Session(r)), map)

read_results(content, map) == ReadLines(FileLines(content), <<>>, map)

----------------------------------------------------------------------------
(* generate_rst_table *)

(* the pass over a row without the comparison: the last row decides *)
WidenByLast(row, col_len) ==
    [i \in 1..Len(col_len) |-> IF i <= Len(row) THEN Len(row[i]) + 2 ELSE col_len[i]]

(* one pass of `for i, col in enumerate(row)` over col_len *)
WidenBy(row, col_len) ==
    [i \in 1..Len(col_len) |->
        IF i <= Len(row) /\ Len(row[i]) >= col_len[i] - 2
        THEN Len(row[i]) + 2 ELSE col_len[i]]

RECURSIVE WidenAll(_, _)
WidenAll(rows, col_len) ==
    IF rows = <<>> THEN col_len
    ELSE WidenAll(Tail(rows), WidenBy(Head(rows), col_len))

(* the column widths generate_rst_table settles on *)
ColLen(rows, heads) == WidenAll(rows, [i \in 1..Len(heads) |-> Len(heads[i]) + 2])

(* '{0:^Ns}'.format(s) *)
Center(s, n) ==
    LET pad == IF n > Len(s) THEN n - Len(s) ELSE 0
    IN  Repeat(" ", pad \div 2) \o s \o Repeat(" ", pad - (pad \div 2))

(* '{0:<Ns}'.format(s) *)
LeftAlign(s, n) == s \o Repeat(" ", n - Len(s))

Min(a, b) == IF a < b THEN a ELSE b

(* the row joined without the empty first and last items: no outer borders *)
RowLineInner(row, col_len) ==
    LET n == IF Len(row) < Len(col_len) THEN Len(row) ELSE Len(col_len)
    IN  Join(<<"|">>, [i \in 1..n |-> Center(row[i], col_len[i])])

(* '|'.join([''] + [fmt.format(col) for fmt, col in zip(head_fmt, row)] + ['']) *)
RowLine(row, col_len) ==
    LET n == Min(Len(row), Len(col_len))
    IN  Join(<<"|">>, << <<>> >> \o [i \in 1..n |-> Center(row[i], col_len[i])]
                       \o << <<>> >>)

HLine(col_len, glyph) ==
    Join(<<"+">>, << <<>> >> \o [i \in 1..Len(col_len) |-> Repeat(glyph, col_len[i])]
                   \o << <<>> >>)

RECURSIVE BodyLines(_, _)
BodyLines(rows, col_len) ==
    IF rows = <<>> THEN <<>>
    ELSE <<RowLine(Head(rows), col_len), HLine(col_len, "-")>>
         \o BodyLines(Tail(rows), col_len)

generate_rst_table(rows, ttl, heads) ==
    LET col_len    == ColLen(rows, heads)
        width      == Len(col_len) + SumSeq(col_len) - 1
        topline    == <<"+">> \o Repeat("-", width) \o <<"+">>
        str_header == <<"|">> \o LeftAlign(ttl, width) \o <<"|">>
    IN  <<topline, str_header, HLine(col_len, "-"), RowLine(heads, col_len),
          HLine(col_len, "=")>> \o BodyLines(rows, col_len)

----------------------------------------------------------------------------
(* The report tables *)

(* CATEGORIES *)
CATEGORIES(c) ==
    IF c = "mental" THEN TXT_MENTAL
    ELSE IF c = "technique" THEN TXT_TECHNIQUE
    ELSE TXT_PHYSICAL

ReportHeadings == <<TXT_ID, TXT_QUESTION, TXT_ANSWER>>

(* one printed table: the arguments of generate_rst_table and its lines *)
Printed(rows, ttl) ==
    [title |-> ttl, rows |-> rows,
     lines |-> generate_rst_table(rows, ttl, ReportHeadings)]

(* dict of lists: d[k].append(v), creating d[k] = [] first when absent *)
AppendTo(d, k, v) ==
    IF k \in Keys(d) THEN Put(d, k, Append(Get(d, k), v)) ELSE Put(d, k, <<v>>)

(* the threshold taken strictly *)
IsLowStrict(answer) == answer < 3

(* an answer counts as low-scoring *)
IsLow(answer) == answer <= 3

(* table_results_low_questions: the dict `low` of one result *)
RECURSIVE LowOf(_, _, _, _)
LowOf(items, quest, map, low) ==
    IF items = <<>> THEN low
    ELSE LET idx      == Head(items)[1]
             answer   == Head(items)[2]
             category == Get(map, idx)
             row      == <<IntStr(idx), Get(quest, idx), IntStr(answer)>>
         IN  LowOf(Tail(items), quest, map,
                   IF IsLow(answer) THEN AppendTo(low, category, row) ELSE low)

(* the body of the loop of table_results_low_questions for one result *)
LowTables(result, quest, map) ==
    LET low  == LowOf(result.result_q, quest, map, <<>>)
        cats == SortedCategories(Keys(low))
    IN  [heading |-> TXT_RESULTS_ON \o strftime(result.time),
         tables  |-> [i \in 1..Len(cats) |->
                        Printed(Get(low, cats[i]),
                                TXT_LOWEST_IN \o CATEGORIES(cats[i]) \o <<"\"">>)]]

(* the answer cell with the mark put on every answer *)
AnswerCellAlways(answer) == IntStr(answer) \o <<"*">>

(* the answer cell of table_results_all_questions *)
AnswerCell(answer) ==
    IF IsLow(answer) THEN IntStr(answer) \o <<"*">> ELSE IntStr(answer)

RECURSIVE AllOf(_, _, _, _, _)
AllOf(ids, result_q, quest, map, acc) ==
    IF ids = <<>> THEN acc
    ELSE LET idx      == Head(ids)
             answer   == Get(result_q, idx)
             category == Get(map, idx)
             row      == <<IntStr(idx), Get(quest, idx), AnswerCell(answer)>>
         IN  AllOf(Tail(ids), result_q, quest, map,
                   [answers    |-> Append(acc.answers, row),
                    categories |-> AppendTo(acc.categories, category, row)])

(* the body of the loop of table_results_all_questions for one result *)
AllTables(result, quest, map) ==
    LET acc  == AllOf(SortedInts(Keys(result.result_q)), result.result_q, quest, map,
                      [answers |-> <<>>, categories |-> <<>>])
        cats == SortedCategories(Keys(acc.categories))
    IN  [heading |-> TXT_RESULTS_ON \o strftime(result.time),
         tables  |-> <<Printed(acc.answers, TXT_ANSWERS_FOR_QUESTIONS)>> \o
                     [i \in 1..Len(cats) |->
                        Printed(Get(acc.categories, cats[i]),
                                TXT_ANSWERS_FOR_CATEGORY \o CATEGORIES(cats[i])
                                \o <<"\"">>)]]

(* `for result in results` of table_results_low_questions: time.strftime   *)
(* raises on a result whose time is None; what was printed stays printed.  *)
RECURSIVE LowLoop(_, _, _, _)
LowLoop(res, quest, map, printed) ==
    IF res = <<>> THEN [ok |-> TRUE, printed |-> printed]
    ELSE IF Head(res).time = None THEN [ok |-> FALSE, printed |-> printed]
    ELSE LowLoop(Tail(res), quest, map,
                 Append(printed, LowTables(Head(res), quest, map)))

table_results_low_questions(res, quest, map) == LowLoop(res, quest, map, <<>>)

(* `for result in results` of table_results_all_questions, likewise *)
RECURSIVE AllLoop(_, _, _, _)
AllLoop(res, quest, map, printed) ==
    IF res = <<>> THEN [ok |-> TRUE, printed |-> printed]
    ELSE IF Head(res).time = None THEN [ok |-> FALSE, printed |-> printed]
    ELSE AllLoop(Tail(res), quest, map,
                 Append(printed, AllTables(Head(res), quest, map)))

table_results_all_questions(res, quest, map) == AllLoop(res, quest, map, <<>>)

----------------------------------------------------------------------------
(* The results file and the runs of the two entry points *)

(* the results file: absent, or present with its characters *)
Absent == [exists |-> FALSE, text |-> <<>>]

FileOf(text) == [exists |-> TRUE, text |-> text]

(* open(outfile, 'w') and write: what the file held is lost *)
Overwritten(f, text) == FileOf(text)

(* open(outfile, 'a') and write: an absent file is created *)
Appended(f, text) == FileOf(f.text \o text)

LastTick == IF log = <<>> THEN 0 ELSE log[Len(log)].tick

AnswerSheets == [Keys(questions) -> 0..MaxScore]

InitCatalog ==
    \E catalog \in Catalogs :
        /\ questions = read_questions(catalog).questions
        /\ mapping = read_questions(catalog).mapping

InitRun ==
    /\ log = <<>>
    /\ asked = None
    /\ phase = "idle"
    /\ results = <<>>
    /\ low_out = None
    /\ all_out = None

InitNoTable ==
    /\ table = <<>>
    /\ title = <<>>
    /\ headings = <<>>
    /\ str_table = <<>>

Init ==
    /\ InitCatalog
    /\ file \in {Absent, FileOf(<<>>)}
    /\ max_runs = MaxAppends
    /\ InitRun
    /\ InitNoTable

(* ask_questions then store_results, the write completing *)
RunCollect ==
    /\ phase = "idle"
    /\ Len(log) < max_runs
    /\ \E tick \in (LastTick + 1)..Len(Clock), answers \in AnswerSheets :
          LET a    == ask_questions(questions, answers, mapping, Clock[tick])
              text == store_results(a.result_q, a.time)
          IN  /\ asked' = a
              /\ file' = Appended(file, text)
              /\ log' = Append(log, [writer |-> "store_results", tick |-> tick,
                                     result_q |-> a.result_q, time |-> a.time,
                                     cut |-> FALSE])
    /\ UNCHANGED <<questions, mapping, max_runs, phase, results, low_out, all_out>>
    /\ UNCHANGED tableVars

(* main of self_assesment.py: read_results *)
ReadResults ==
    /\ phase = "idle"
    /\ LET r == read_results(file.text, mapping)
       IN  IF ~file.exists \/ ~r.ok
           THEN phase' = "error" /\ results' = <<>>
           ELSE phase' = "read" /\ results' = r.results
    /\ UNCHANGED <<questions, mapping, file, max_runs, log, asked, low_out, all_out>>
    /\ UNCHANGED tableVars

(* main of self_assesment.py: table_results_low_questions *)
TableLow ==
    /\ phase = "read"
    /\ low_out' = table_results_low_questions(results, questions, mapping)
    /\ phase' = IF low_out'.ok THEN "low" ELSE "error"
    /\ UNCHANGED <<questions, mapping, file, max_runs, log, asked, results, all_out>>
    /\ UNCHANGED tableVars

(* main of self_assesment.py: table_results_all_questions *)
TableAll ==
    /\ phase = "low"
    /\ all_out' = table_results_all_questions(results, questions, mapping)
    /\ phase' = IF all_out'.ok THEN "all" ELSE "error"
    /\ UNCHANGED <<questions, mapping, file, max_runs, log, asked, results, low_out>>
    /\ UNCHANGED tableVars

(* the history of the results file: runs of the collection, then a read *)
Next == RunCollect \/ ReadResults

Spec == Init /\ [][Next]_vars

----------------------------------------------------------------------------
(* Results files that were not written by a completed store_results alone: *)
(* a file found in place at start, a write cut off, the other writer.      *)

FILE_EMPTY == <<>>
FILE_BLANK_LINE == <<"\n">>
FILE_NO_TIME == <<"0", "=", "2", " ", "1", "=", "5", " ", "\n">>
FILE_REPEATED_ID == <<"t", "i", "m", "e", "=", "0", "5", ".", "1", "1", ".", "2", "0", "2", "6", "-", "0", "9", ":", "0", "7", ":", "0", "3", ":", "0", "0", "0", "1", "2", "0", " ", "0", "=", "2", " ", "0", "=", "5", " ", "1", "=", "4", " ", "\n">>
FILE_UNSORTED == <<"t", "i", "m", "e", "=", "0", "5", ".", "1", "1", ".", "2", "0", "2", "6", "-", "0", "9", ":", "0", "7", ":", "0", "3", ":", "0", "0", "0", "1", "2", "0", " ", "1", "=", "3", " ", "0", "=", "4", " ", "\n">>

(* results.txt as it may be found when a run starts *)
PriorFiles == {FILE_EMPTY, FILE_BLANK_LINE, FILE_NO_TIME, FILE_REPEATED_ID,
               FILE_UNSORTED}

InitFound ==
    /\ InitCatalog
    /\ file \in {FileOf(text) : text \in PriorFiles}
    /\ max_runs = MaxRuns
    /\ InitRun
    /\ InitNoTable

(* ask_questions then store_results, the write cut off after n characters *)
RunCollectInterrupted ==
    /\ phase = "idle"
    /\ Len(log) < max_runs
    /\ \E tick \in (LastTick + 1)..Len(Clock), answers \in AnswerSheets :
          LET a    == ask_questions(questions, answers, mapping, Clock[tick])
              text == store_results(a.result_q, a.time)
          IN  \E n \in 1..(Len(text) - 1) :
                /\ asked' = a
                /\ file' = Appended(file, Prefix(text, n))
                /\ log' = Append(log, [writer |-> "store_results", tick |-> tick,
                                       result_q |-> a.result_q, time |-> a.time,
                                       cut |-> TRUE])
    /\ UNCHANGED <<questions, mapping, max_runs, phase, results, low_out, all_out>>
    /\ UNCHANGED tableVars

(* main of self-assesment.py: ask_questions then store_results *)
RunCollectScript ==
    /\ phase = "idle"
    /\ Len(log) < max_runs
    /\ \E tick \in (LastTick + 1)..Len(Clock) :
          LET a    == ask_questions_collect(questions, mapping, Clock[tick])
              text == store_results_collect(a.result_q, a.time)
          IN  /\ asked' = a
              /\ file' = Appended(file, text)
              /\ log' = Append(log, [writer |-> "self-assesment.py", tick |-> tick,
                                     result_q |-> a.result_q, time |-> a.time,
                                     cut |-> FALSE])
    /\ UNCHANGED <<questions, mapping, max_runs, phase, results, low_out, all_out>>
    /\ UNCHANGED tableVars

(* main of self_assesment.py on a file found in place, after at most *)
(* MaxRuns runs of the collection                                    *)
NextReport == RunCollect \/ ReadResults \/ TableLow \/ TableAll

SpecReport == InitFound /\ [][NextReport]_vars

NextFaults ==
    \/ RunCollect
    \/ RunCollectInterrupted
    \/ RunCollectScript
    \/ ReadResults
    \/ TableLow
    \/ TableAll

SpecFaults == InitFound /\ [][NextFaults]_vars

----------------------------------------------------------------------------
(* generate_rst_table on its own *)

Cells == {Repeat("x", n) : n \in 0..MaxCellLen}

RowsOf(ncol) == [1..ncol -> Cells]

TablesOf(ncol) == UNION {[1..n -> RowsOf(ncol)] : n \in 0..MaxRows}

(* the headings and title of a call *)
Callers ==
    { [headings |-> <<TXT_ID, <<"Q">>, <<>> >>, title |-> TXT_ANSWERS_FOR_QUESTIONS],
      [headings |-> << <<"N">>, TXT_ANSWER>>, title |-> <<"T">>] }

InitTable ==
    /\ questions = <<>>
    /\ mapping = <<>>
    /\ file = Absent
    /\ max_runs = 0
    /\ InitRun
    /\ str_table = <<>>
    /\ \E c \in Callers : headings = c.headings /\ title = c.title
    /\ table \in TablesOf(Len(headings))

GenerateTable ==
    /\ str_table = <<>>
    /\ headings # <<>>
    /\ str_table' = generate_rst_table(table, title, headings)
    /\ UNCHANGED <<table, title, headings>>
    /\ UNCHANGED fileVars

NextTable == GenerateTable

SpecTable == InitTable /\ [][NextTable]_vars

----------------------------------------------------------------------------
(* Properties *)

(* main got past read_results *)
HasRead == phase \in {"read", "low", "all"} \/ low_out # None

(* the sessions the completed store_results calls of the log put in the file *)
Logged == [i \in 1..Len(log) |-> [time |-> log[i].time, result_q |-> log[i].result_q]]

Read == [i \in 1..Len(results) |->
            [time |-> results[i].time, result_q |-> results[i].result_q]]

Complete(entry) == entry.writer = "store_results" /\ ~entry.cut

(* the line the writer of a log entry had to write *)
LineOf(entry) ==
    IF entry.writer = "store_results"
    THEN store_results(entry.result_q, entry.time)
    ELSE store_results_collect(entry.result_q, entry.time)

(* C1: one store_results on an empty or absent file and then read_results  *)
(* gives exactly one session, with the answers and the time stamp that     *)
(* were stored.                                                            *)
C1_RoundTrip ==
    (Len(log) = 1 /\ Complete(log[1]) /\ phase # "idle") =>
        /\ phase # "error"
        /\ Len(results) = 1
        /\ results[1].result_q = log[1].result_q
        /\ results[1].time = log[1].time

C1_Witness ==
    /\ phase = "read"
    /\ Len(log) = 1
    /\ log[1].time = Clock[1]
    /\ log[1].result_q = << <<0, 2>>, <<1, 5>> >>
    /\ Len(results) = 1

(* C2: after n store_results calls on an empty or absent file the file is  *)
(* the n appended lines in call order, none changed or removed, and        *)
(* read_results returns the n sessions in that order.                      *)
C2_AppendOnly ==
    (\A i \in 1..Len(log) : Complete(log[i])) =>
        /\ file.text = Flatten([i \in 1..Len(log) |-> LineOf(log[i])])
        /\ phase # "error" \/ ~file.exists
        /\ HasRead => Read = Logged

C2_Witness ==
    /\ phase = "read"
    /\ Len(log) = 2
    /\ Len(results) = 2
    /\ results[1].time = Clock[1]
    /\ results[2].time = Clock[3]
    /\ results[1].result_q # results[2].result_q

TotalsAgree(r) == SumSeq(Values(r.result_c)) = SumSeq(Values(r.result_q))

(* C3: in every session read_results returns, and in every result of       *)
(* ask_questions, the category totals add up to the sum of the answers.    *)
C3_TotalsMatch ==
    /\ asked # None => TotalsAgree(asked)
    /\ HasRead => \A i \in 1..Len(results) : TotalsAgree(results[i])

(* C4: every writer appends lines of the one format, time=<stamp with      *)
(* fractional seconds> then <id>=<answer> in ascending id order, so each   *)
(* line written by the collection entry point is read back as a session.   *)
C4_OneLineFormat ==
    \A i \in 1..Len(log) :
        ~log[i].cut =>
            /\ LineOf(log[i]) = store_results(log[i].result_q, log[i].time)
            /\ ReadLine(LineOf(log[i]), mapping).ok
            /\ ReadLine(LineOf(log[i]), mapping).result_q = log[i].result_q

LastWriteCut == log # <<>> /\ log[Len(log)].cut

(* C9: when the last write was cut off, so that the file ends in a proper  *)
(* prefix of the line, the next read_results fails; it returns no session  *)
(* built from the cut line.                                                *)
C9_CutLineRejected == (LastWriteCut /\ phase # "idle") => ~HasRead

(* C10: a line with no time token is rejected, so every session that       *)
(* read_results returns has a time stamp.                                  *)
C10_EverySessionTimed ==
    HasRead => \A i \in 1..Len(results) : results[i].time # None

LowTitle(c) == TXT_LOWEST_IN \o CATEGORIES(c) \o <<"\"">>

(* the <<table, row>> positions of the rows printed for one session *)
RowSlots(tables) ==
    UNION {{<<t, r>> : r \in 1..Len(tables[t].rows)} : t \in 1..Len(tables)}

LowReportOf(result, out) ==
    LET tables == out.tables
        items  == result.result_q
    IN  /\ \A x \in RowSlots(tables) :
              LET row == tables[x[1]].rows[x[2]]
              IN  /\ IntVal(row[3]) <= 3
                  /\ \E k \in 1..Len(items) :
                        /\ row = <<IntStr(items[k][1]), Get(questions, items[k][1]),
                                   IntStr(items[k][2])>>
                        /\ tables[x[1]].title = LowTitle(Get(mapping, items[k][1]))
        /\ \A k \in 1..Len(items) :
              items[k][2] <= 3 =>
                 Cardinality({x \in RowSlots(tables) :
                     /\ tables[x[1]].rows[x[2]][1] = IntStr(items[k][1])
                     /\ tables[x[1]].rows[x[2]][3] = IntStr(items[k][2])
                     /\ tables[x[1]].title = LowTitle(Get(mapping, items[k][1]))}) = 1
        /\ \A t \in 1..Len(tables) :
              Len(tables[t].lines) = 5 + 2 * Len(tables[t].rows)

AllTimed == \A i \in 1..Len(results) : results[i].time # None

(* C7: every row of a low-scoring table carries an answer <= 3, and every  *)
(* answer <= 3 of a session is a row of exactly one table, the one of its  *)
(* question's category; no answer > 3 is in any of them.                   *)
C7_LowReport ==
    low_out # None =>
        /\ \A s \in 1..Len(low_out.printed) :
              LowReportOf(results[s], low_out.printed[s])
        /\ AllTimed => Len(low_out.printed) = Len(results)

C7_Witness ==
    /\ low_out # None
    /\ Len(results) = 2
    /\ Len(low_out.printed) = 2
    /\ results[1].result_q = << <<1, 3>>, <<0, 4>> >>
    /\ results[2].result_q = << <<0, 3>>, <<1, 2>> >>
    /\ Len(low_out.printed[1].tables) = 1
    /\ Len(low_out.printed[2].tables) = 2

AllTitle(c) == TXT_ANSWERS_FOR_CATEGORY \o CATEGORIES(c) \o <<"\"">>

Starred(cell) == cell # <<>> /\ cell[Len(cell)] = "*"

FullReportOf(result, out) ==
    LET tables == out.tables
        ids    == SortedInts(Keys(result.result_q))
        rows   == tables[1].rows
        cats   == SortedCategories({Get(mapping, idx) : idx \in Keys(result.result_q)})
        CategoryOfRow(row) == Get(mapping, IntVal(row[1]))
    IN  /\ tables[1].title = TXT_ANSWERS_FOR_QUESTIONS
        /\ Len(rows) = Len(ids)
        /\ \A k \in 1..Len(ids) :
              LET answer == Get(result.result_q, ids[k])
              IN  /\ rows[k][1] = IntStr(ids[k])
                  /\ rows[k][2] = Get(questions, ids[k])
                  /\ Starred(rows[k][3]) <=> answer <= 3
                  /\ rows[k][3] = IF answer <= 3 THEN IntStr(answer) \o <<"*">>
                                  ELSE IntStr(answer)
        /\ Len(tables) = 1 + Len(cats)
        /\ \A c \in 1..Len(cats) :
              /\ tables[1 + c].title = AllTitle(cats[c])
              /\ tables[1 + c].rows =
                    SelectSeq(rows, LAMBDA row : CategoryOfRow(row) = cats[c])
        /\ SumSeq([c \in 1..Len(cats) |-> Len(tables[1 + c].rows)]) = Len(rows)
        /\ \A t \in 1..Len(tables) :
              Len(tables[t].lines) = 5 + 2 * Len(tables[t].rows)

(* C8: the full report of a session is one table with a row per answered   *)
(* question in ascending id order, the answer starred exactly when it is   *)
(* <= 3, then one table per category holding exactly the rows of that      *)
(* category, so that the category tables partition the rows.               *)
C8_FullReport ==
    all_out # None =>
        /\ \A s \in 1..Len(all_out.printed) :
              FullReportOf(results[s], all_out.printed[s])
        /\ AllTimed => Len(all_out.printed) = Len(results)

C8_Witness ==
    /\ all_out # None
    /\ Len(all_out.printed) = 1
    /\ results[1].result_q = << <<0, 2>>, <<1, 5>> >>
    /\ all_out.printed[1].tables[1].rows[1][3] = <<"2", "*">>
    /\ all_out.printed[1].tables[1].rows[2][3] = <<"5">>
    /\ Len(all_out.printed[1].tables) = 3

----------------------------------------------------------------------------
(* Properties of generate_rst_table *)

Generated == str_table # <<>>

Columns == Len(headings)

(* the data rows of the rendered table: lines 6, 8, ... *)
DataLines == {5 + 2 * r - 1 : r \in 1..Len(table)}

MaxOf(S) == CHOOSE m \in S : \A x \in S : x <= m

(* the longest text column j has to hold *)
Longest(j) == MaxOf({Len(headings[j])} \cup {Len(table[r][j]) : r \in 1..Len(table)})

(* the width of column j as rendered in line i *)
RenderedWidth(i, j, glyph) == Len(Split(str_table[i], glyph)[j + 1])

(* C5: each column j is rendered max(len(heading j), longest cell of       *)
(* column j) + 2 wide, whatever the order of the rows.                     *)
C5_ColumnWidth ==
    Generated =>
        \A j \in 1..Columns :
            /\ ColLen(table, headings)[j] = Longest(j) + 2
            /\ RenderedWidth(3, j, "+") = Longest(j) + 2
            /\ RenderedWidth(4, j, "|") = Longest(j) + 2
            /\ \A i \in DataLines : RenderedWidth(i, j, "|") = Longest(j) + 2
            /\ RenderedWidth(3, j, "+") >= Len(headings[j]) + 2
            /\ \A r \in 1..Len(table) :
                  RenderedWidth(3, j, "+") >= Len(table[r][j]) + 2

C5_Witness ==
    /\ Generated
    /\ Len(table) = 2
    /\ Columns = 3
    /\ Len(table[1][2]) = 2
    /\ Len(table[2][2]) = 0
    /\ Len(table[1][1]) = 0
    /\ RenderedWidth(3, 2, "+") = 4
    /\ RenderedWidth(3, 1, "+") = 4

(* the border glyphs of a rendered row *)
Borders(line) == CountOf("|", line)

(* C6 as stated: the title row, the header row and each data row have      *)
(* exactly columns + 1 border segments.                                    *)
C6_EveryRowBorders ==
    Generated =>
        /\ Borders(str_table[2]) = Columns + 1
        /\ Borders(str_table[4]) = Columns + 1
        /\ \A i \in DataLines : Borders(str_table[i]) = Columns + 1

(* C6 amended: the header row and each data row have exactly columns + 1   *)
(* border glyphs; the title row is one cell as wide as the table and has   *)
(* exactly 2, whatever the number of columns.                              *)
C6_RowBorders ==
    Generated =>
        /\ Borders(str_table[2]) = 2
        /\ Borders(str_table[4]) = Columns + 1
        /\ \A i \in DataLines : Borders(str_table[i]) = Columns + 1
        /\ Len(str_table) = 5 + 2 * Len(table)

C6_Witness ==
    /\ Generated
    /\ Columns = 3
    /\ Len(table) = 2
    /\ title # <<>>
    /\ Borders(str_table[2]) = 2
    /\ Borders(str_table[6]) = 4

====
